---- MODULE Spec2Model ----
(***************************************************************************)
(* Model of save-rendered.js: a sequential crawler that renders pages,     *)
(* downloads their assets, rewrites asset URLs in the saved HTML and in    *)
(* downloaded stylesheets, and enqueues same-site links.                   *)
(*                                                                         *)
(* Text (URLs, HTML, CSS, file paths) is a sequence of tokens; the real    *)
(* string is the concatenation of the tokens.  Tokens are chosen so that   *)
(* every boundary the code looks at (":", "//", "/", "?", "#", ".",        *)
(* "url(", ")") is a token boundary.                                       *)
(***************************************************************************)
EXTENDS Integers, Sequences, FiniteSets, TLC

\* ------------------------------------------------------------------------
\* Text helpers (JavaScript String / Array primitives)
\* ------------------------------------------------------------------------

\* a value that is no text: JavaScript null / undefined
Null == <<"(null)">>

\* String.prototype.startsWith
StartsWith(t, p) ==
  /\ Len(p) <= Len(t)
  /\ SubSeq(t, 1, Len(p)) = p

\* String.prototype.endsWith
EndsWith(t, p) ==
  /\ Len(p) <= Len(t)
  /\ SubSeq(t, Len(t) - Len(p) + 1, Len(t)) = p

\* String.prototype.slice(n) with n counted in tokens
Drop(t, n) == SubSeq(t, n + 1, Len(t))

\* does pattern p occur in t at position i
OccursAt(t, p, i) ==
  /\ i >= 1
  /\ i + Len(p) - 1 <= Len(t)
  /\ SubSeq(t, i, i + Len(p) - 1) = p

\* String.prototype.includes
Contains(t, p) == \E i \in 1..Len(t) : OccursAt(t, p, i)

\* position of the first token equal to one of the tokens in S, or Len(t)+1
RECURSIVE FirstOf(_, _, _)
FirstOf(t, S, i) ==
  IF i > Len(t) THEN Len(t) + 1
  ELSE IF t[i] \in S THEN i
  ELSE FirstOf(t, S, i + 1)

\* position of the last token equal to tok, or 0 (String.prototype.lastIndexOf)
RECURSIVE LastIndexOf(_, _, _)
LastIndexOf(t, tok, i) ==
  IF i < 1 THEN 0
  ELSE IF t[i] = tok THEN i
  ELSE LastIndexOf(t, tok, i - 1)

\* html.replace(new RegExp(escaped, "g"), rel) and text.split(p).join(r):
\* every occurrence of the literal p, scanning left to right, occurrences
\* not overlapping, is replaced by r; an empty pattern is not used by the code
RECURSIVE ReplaceAllFrom(_, _, _, _)
ReplaceAllFrom(t, p, r, i) ==
  IF i > Len(t) THEN <<>>
  ELSE IF Len(p) > 0 /\ OccursAt(t, p, i)
       THEN r \o ReplaceAllFrom(t, p, r, i + Len(p))
       ELSE <<t[i]>> \o ReplaceAllFrom(t, p, r, i + 1)

ReplaceAll(t, p, r) == ReplaceAllFrom(t, p, r, 1)

\* Array.prototype.includes on a sequence
InSeq(x, s) == \E i \in 1..Len(s) : s[i] = x

\* the concatenation of a sequence of texts, sep between them (Array.join)
RECURSIVE JoinWith(_, _)
JoinWith(ss, sep) ==
  IF Len(ss) = 0 THEN <<>>
  ELSE IF Len(ss) = 1 THEN ss[1]
  ELSE ss[1] \o sep \o JoinWith(Tail(ss), sep)

\* the non-empty pieces of t between sep tokens
RECURSIVE SplitFrom(_, _, _, _)
SplitFrom(t, sep, i, cur) ==
  IF i > Len(t) THEN (IF cur = <<>> THEN <<>> ELSE <<cur>>)
  ELSE IF t[i] = sep
       THEN (IF cur = <<>> THEN <<>> ELSE <<cur>>) \o SplitFrom(t, sep, i + 1, <<>>)
       ELSE SplitFrom(t, sep, i + 1, Append(cur, t[i]))

Segments(t) == SplitFrom(t, "/", 1, <<>>)

\* the pieces of t between sep tokens, empty pieces kept (String.split)
RECURSIVE SplitKeepFrom(_, _, _, _)
SplitKeepFrom(t, sep, i, cur) ==
  IF i > Len(t) THEN <<cur>>
  ELSE IF t[i] = sep
       THEN <<cur>> \o SplitKeepFrom(t, sep, i + 1, <<>>)
       ELSE SplitKeepFrom(t, sep, i + 1, Append(cur, t[i]))

SplitKeep(t, sep) == SplitKeepFrom(t, sep, 1, <<>>)

\* ------------------------------------------------------------------------
\* URL (the WHATWG URL class as the script uses it)
\* An absolute URL is  scheme "//" host path ["?" query] ["#" fragment].
\* ------------------------------------------------------------------------

\* schemes with an authority, and the data: scheme (opaque path)
SpecialSchemes == {"https:", "http:"}
Schemes == SpecialSchemes \cup {"data:"}

\* tokens that end the host, the path and the query
Delims == {"//", "/", "?", "#"}

\* new URL(t) succeeds for an absolute t: a special scheme needs "//" and a host
IsAbsolute(t) ==
  /\ Len(t) >= 1
  /\ t[1] \in Schemes
  /\ t[1] \in SpecialSchemes =>
       /\ Len(t) >= 3
       /\ t[2] = "//"
       /\ t[3] \notin Delims

\* index of the first token of the path
PathStart(u) == IF u[1] \in SpecialSchemes THEN 4 ELSE 2

\* index just after the path, and just after the query
PathEnd(u) == FirstOf(u, {"?", "#"}, PathStart(u))
QueryEnd(u) == FirstOf(u, {"#"}, PathStart(u))

\* u.origin, without the port (scheme "//" host)
Origin(u) == IF u[1] \in SpecialSchemes THEN SubSeq(u, 1, 3) ELSE <<u[1]>>

\* u.hostname
Hostname(u) == IF u[1] \in SpecialSchemes THEN <<u[3]>> ELSE <<>>

\* u.pathname
Pathname(u) == SubSeq(u, PathStart(u), PathEnd(u) - 1)

\* the query with its "?" as the URL serializer writes it (kept when empty)
QueryPart(u) == SubSeq(u, PathEnd(u), QueryEnd(u) - 1)

\* u.search: "?" and the query, or the empty string when the query is empty
\* or absent
Search(u) == IF Len(QueryPart(u)) <= 1 THEN <<>> ELSE QueryPart(u)

\* the fragment with its "#"
HashPart(u) == SubSeq(u, QueryEnd(u), Len(u))

\* removal of "." and ".." segments from a path that starts with "/"
RECURSIVE DotFold(_, _, _)
DotFold(segs, i, acc) ==
  IF i > Len(segs) THEN acc
  ELSE IF segs[i] = <<"..">>
       THEN LET popped == IF Len(acc) > 0 THEN SubSeq(acc, 1, Len(acc) - 1) ELSE acc
            IN  DotFold(segs, i + 1, IF i = Len(segs) THEN Append(popped, <<>>) ELSE popped)
  ELSE IF segs[i] = <<".">>
       THEN DotFold(segs, i + 1, IF i = Len(segs) THEN Append(acc, <<>>) ELSE acc)
  ELSE DotFold(segs, i + 1, Append(acc, segs[i]))

RemoveDots(path) ==
  IF Len(path) = 0 \/ path[1] # "/" THEN path
  ELSE <<"/">> \o JoinWith(DotFold(SplitKeep(Drop(path, 1), "/"), 1, <<>>), <<"/">>)

\* the serialization of a parsed absolute URL: an empty path of a special
\* scheme becomes "/", dot segments are removed
Canonical(u) ==
  IF u[1] \notin SpecialSchemes THEN u
  ELSE Origin(u)
       \o (IF Len(Pathname(u)) = 0 THEN <<"/">> ELSE RemoveDots(Pathname(u)))
       \o QueryPart(u) \o HashPart(u)

\* the directory of a path: up to and including its last "/"
DirOf(path) == SubSeq(path, 1, LastIndexOf(path, "/", Len(path)))

\* new URL(ref, base).toString(), Null when the constructor throws
Resolve(ref, base) ==
  IF ref = Null THEN Null
  ELSE IF Len(ref) >= 1 /\ ref[1] \in Schemes
       THEN (IF IsAbsolute(ref) THEN Canonical(ref) ELSE Null)
  ELSE IF base = Null \/ ~IsAbsolute(base) \/ base[1] \notin SpecialSchemes THEN Null
  ELSE IF Len(ref) = 0 THEN SubSeq(base, 1, QueryEnd(base) - 1)
  ELSE IF ref[1] = "//"
       THEN (IF IsAbsolute(<<base[1]>> \o ref) THEN Canonical(<<base[1]>> \o ref) ELSE Null)
  ELSE IF ref[1] = "/" THEN Canonical(Origin(base) \o ref)
  ELSE IF ref[1] = "?" THEN Origin(base) \o Pathname(base) \o ref
  ELSE IF ref[1] = "#" THEN SubSeq(base, 1, QueryEnd(base) - 1) \o ref
  ELSE Canonical(Origin(base) \o DirOf(Pathname(base)) \o ref)

\* new URL(t).toString() for one argument, Null when it throws
ParseURL(t) == Resolve(t, Null)

\* decodeURIComponent on one token: "%20" is an escaped space, a lone "%" is
\* a malformed escape
DecodeTok(tok) == IF tok = "%20" THEN " " ELSE tok

\* decodeURIComponent(t), Null when it throws URIError
Decode(t) ==
  IF \E i \in 1..Len(t) : t[i] = "%" THEN Null
  ELSE [i \in 1..Len(t) |-> DecodeTok(t[i])]

\* ------------------------------------------------------------------------
\* File paths (Node's path module, POSIX); a path is given relative to
\* OUTPUT_DIR, its segments separated by "/"
\* ------------------------------------------------------------------------

\* path.join(OUTPUT_DIR, p): empty segments are dropped
PathJoin(p) == JoinWith(Segments(p), <<"/">>)

\* path.basename as path.extname sees it: the tokens after the last "/"
Basename(p) == Drop(p, LastIndexOf(p, "/", Len(p)))

\* path.extname(p): from the last "." of the basename to its end, empty when
\* there is no "." or when the basename starts with its only "."
Extname(p) ==
  LET b == Basename(p)
      d == LastIndexOf(b, ".", Len(b))
  IN  IF d <= 1 THEN <<>> ELSE Drop(b, d - 1)

\* the two hex digits of each byte of a token, as Buffer.toString("hex")
HexOf(tok) ==
  CASE tok = "?" -> "3f"
    [] tok = "v" -> "76"
    [] tok = "w" -> "77"
    [] tok = "=" -> "3d"
    [] OTHER -> "00"

\* a hex encoding that keeps the first byte only
HexFirstByte(s) == <<HexOf(s[1])>>

\* Buffer.from(s).toString("hex")
Hex(s) == [i \in 1..Len(s) |-> HexOf(s[i])]

\* path.dirname of a relative file path, as segments
DirSegments(p) ==
  LET s == Segments(p) IN IF Len(s) = 0 THEN <<>> ELSE SubSeq(s, 1, Len(s) - 1)

\* length of the longest common prefix of two sequences
RECURSIVE CommonLen(_, _, _)
CommonLen(a, b, i) ==
  IF i > Len(a) \/ i > Len(b) \/ a[i] # b[i] THEN i - 1
  ELSE CommonLen(a, b, i + 1)

\* path.relative(fromDir, to).split(path.sep).join("/")
Relative(fromDir, to) ==
  LET t == Segments(to)
      k == CommonLen(fromDir, t, 1)
  IN  JoinWith([i \in 1..(Len(fromDir) - k) |-> <<"..">>] \o SubSeq(t, k + 1, Len(t)),
               <<"/">>)

\* ------------------------------------------------------------------------
\* Configuration and pure functions of the script
\* ------------------------------------------------------------------------

\* the page cap; the script sets 500, the model explores a small cap
MAX_PAGES == 3

\* the configuration the script runs with: its start URL and path prefix
VARIABLE config

\* the configuration written in the script (lines 33 and 35)
DefaultConfig ==
  [ start |-> <<"https:", "//", "themenectar.com", "/", "salient", "/", "signal", "/">>,
    prefix |-> <<"/", "salient", "/">> ]

START_URL == config.start

START_HOSTNAME == Hostname(ParseURL(START_URL))

PATH_PREFIX == config.prefix

\* urlToLocalPath(url): the file path of an asset, Null when it cannot be
\* derived
urlToLocalPath(url) ==
  LET u == ParseURL(url) IN
  IF u = Null THEN Null
  ELSE LET d == Decode(Pathname(u)) IN
       IF d = Null THEN Null
       ELSE LET p1 == IF EndsWith(d, <<"/">>) THEN d \o <<"index">> ELSE d
                p2 == IF StartsWith(p1, <<"/">>) THEN Drop(p1, 1) ELSE p1
                p3 == IF Extname(p2) = <<>> /\ Search(u) # <<>>
                      THEN p2 \o <<"_">> \o Hex(Search(u))
                      ELSE p2
            IN  PathJoin(p3)

\* makeRelativeForHtml(htmlFilePath, assetLocalPath)
makeRelativeForHtml(htmlFilePath, assetLocalPath) ==
  Relative(DirSegments(htmlFilePath), assetLocalPath)

\* u.pathname.replace(/\/+$/, "/"): the trailing run of "/" becomes one "/"
RECURSIVE StripSlashes(_)
StripSlashes(path) ==
  IF Len(path) > 0 /\ path[Len(path)] = "/"
  THEN StripSlashes(SubSeq(path, 1, Len(path) - 1))
  ELSE path

\* a normalization that removes the fragment and leaves the slashes
normalizeKeepsSlashes(url) ==
  LET u == Resolve(url, START_URL) IN
  IF u = Null THEN Null ELSE SubSeq(u, 1, QueryEnd(u) - 1)

\* normalize(url): absolute against START_URL, fragment removed, trailing
\* slashes of a non-root path collapsed; Null when the URL cannot be parsed
normalize(url) ==
  LET u == Resolve(url, START_URL) IN
  IF u = Null THEN Null
  ELSE LET noHash == SubSeq(u, 1, QueryEnd(u) - 1)
           path == Pathname(noHash)
       IN  IF noHash[1] \in SpecialSchemes /\ EndsWith(path, <<"/">>) /\ path # <<"/">>
           THEN Canonical(Origin(noHash) \o StripSlashes(path) \o <<"/">> \o QueryPart(noHash))
           ELSE noHash

\* the file a page is saved to (lines 229-233), Null when decoding throws
htmlFilePathOf(pageUrl) ==
  LET pagePathname == Pathname(pageUrl)
      withIndex == IF EndsWith(pagePathname, <<"/">>)
                   THEN pagePathname \o <<"index", ".", "html">>
                   ELSE pagePathname
      d == Decode(Drop(withIndex, 1))
  IN  IF d = Null THEN Null ELSE PathJoin(d)

\* urlToLocal is an object whose keys keep their insertion order: a sequence
\* of [url, path] entries
Lookup(map, url) ==
  IF \E i \in 1..Len(map) : map[i].url = url
  THEN map[CHOOSE i \in 1..Len(map) : map[i].url = url].path
  ELSE Null

HasKey(map, url) == \E i \in 1..Len(map) : map[i].url = url

\* urlToLocal[url] = path
Put(map, url, path) ==
  IF HasKey(map, url)
  THEN [i \in 1..Len(map) |-> IF map[i].url = url THEN [url |-> url, path |-> path] ELSE map[i]]
  ELSE Append(map, [url |-> url, path |-> path])

\* Object.keys(map)
Keys(map) == [i \in 1..Len(map) |-> map[i].url]

\* "//" + u.hostname + u.pathname + u.search
OriginLess(origUrl) ==
  <<"//">> \o Hostname(origUrl) \o Pathname(origUrl) \o Search(origUrl)

\* one iteration of the HTML rewrite loop (lines 237-246)
RewriteEntry(text, entry, htmlFilePath) ==
  LET rel == makeRelativeForHtml(htmlFilePath, entry.path)
      first == ReplaceAll(text, entry.url, rel)
  IN  ReplaceAll(first, OriginLess(entry.url), rel)

\* the HTML rewrite loop over Object.entries(urlToLocal) (lines 236-247)
RECURSIVE RewriteFrom(_, _, _, _)
RewriteFrom(text, map, i, htmlFilePath) ==
  IF i > Len(map) THEN text
  ELSE RewriteFrom(RewriteEntry(text, map[i], htmlFilePath), map, i + 1, htmlFilePath)

RewriteHtml(text, map, htmlFilePath) == RewriteFrom(text, map, 1, htmlFilePath)

\* u.match(/\.css($|\?)/i)
IsCssUrl(u) ==
  \E i \in 1..(Len(u) - 1) :
    /\ u[i] = "."
    /\ u[i + 1] = "css"
    /\ (i + 1 = Len(u) \/ u[i + 2] = "?")

\* Object.keys(urlToLocal).filter((u) => u.match(/\.css($|\?)/i))
CssUrlsOf(map) == SelectSeq(Keys(map), IsCssUrl)

Quotes == {"'", "\""}

\* first position j >= i where p occurs in t, or 0
RECURSIVE FindFrom(_, _, _)
FindFrom(t, p, i) ==
  IF i + Len(p) - 1 > Len(t) THEN 0
  ELSE IF OccursAt(t, p, i) THEN i
  ELSE FindFrom(t, p, i + 1)

\* Array.from(cssText.matchAll(/url\((['"]?)(.*?)\1\)/g)): for each match
\* the whole literal m[0] and the reference m[2]
RECURSIVE CssMatchesFrom(_, _)
CssMatchesFrom(t, i) ==
  IF i > Len(t) THEN <<>>
  ELSE IF t[i] # "url(" THEN CssMatchesFrom(t, i + 1)
  ELSE LET q == IF i + 1 <= Len(t) /\ t[i + 1] \in Quotes THEN <<t[i + 1]>> ELSE <<>>
           closeQ == IF q = <<>> THEN 0 ELSE FindFrom(t, q \o <<")">>, i + 2)
           closeN == FindFrom(t, <<")">>, i + 1)
       IN  IF closeQ > 0
           THEN <<[lit |-> SubSeq(t, i, closeQ + 1), ref |-> SubSeq(t, i + 2, closeQ - 1)]>>
                \o CssMatchesFrom(t, closeQ + 2)
           ELSE IF closeN > 0
           THEN <<[lit |-> SubSeq(t, i, closeN), ref |-> SubSeq(t, i + 1, closeN - 1)]>>
                \o CssMatchesFrom(t, closeN + 1)
           ELSE CssMatchesFrom(t, i + 1)

CssMatches(t) == CssMatchesFrom(t, 1)

\* `url("${relForCss}")`
CssUrlLiteral(rel) == <<"url(", "\"">> \o rel \o <<"\"", ")">>

\* path.relative(path.dirname(cssLocal), localFull) with "/" separators
RelForCss(cssLocal, localFull) == Relative(DirSegments(cssLocal), localFull)

\* fs.existsSync(path): a file, or a directory that holds a file
Exists(fs, path) ==
  \/ path \in DOMAIN fs
  \/ \E f \in DOMAIN fs : StartsWith(f, path \o <<"/">>)

\* ------------------------------------------------------------------------
\* The site: what the browser and fetch return
\* ------------------------------------------------------------------------

\* an absolute URL on the start host
Site(path) == <<"https:", "//", "themenectar.com">> \o path

IMG == Site(<<"/", "salient", "/", "img", "/", "a", ".", "png">>)
FONT == Site(<<"/", "salient", "/", "fonts", "/", "x", ".", "woff">>)
CSS_S == Site(<<"/", "salient", "/", "css", "/", "s", ".", "css">>)
CSS_T == Site(<<"/", "salient", "/", "css", "/", "t", ".", "css">>)
CSS_U == Site(<<"/", "salient", "/", "css", "/", "u", ".", "css">>)
BAD == Site(<<"/", "salient", "/", "%">>)

\* res.arrayBuffer(): the body served for a URL; two stylesheets, s.css
\* referring to a font and to t.css, t.css referring back to s.css, and a
\* stylesheet u.css referring to itself
SiteBody(url) ==
  IF url = CSS_S
  THEN <<"url(", "..", "/", "fonts", "/", "x", ".", "woff", ")", " ",
         "url(", "\"", "t", ".", "css", "\"", ")">>
  ELSE IF url = CSS_T THEN <<"url(", "s", ".", "css", ")">>
  ELSE IF url = CSS_U THEN <<"url(", "u", ".", "css", ")">>
  ELSE <<"bytes">>

\* page.content() and the asset list page.evaluate returns for a page of
\* the site: the start page shows an image and a font, page a/ links the
\* stylesheet s.css, every other page lists an undecodable URL, the image, the font and s.css
PAGE_A == Site(<<"/", "salient", "/", "a", "/">>)

SitePage(url) ==
  IF url = START_URL
  THEN [html |-> <<"<img ">> \o IMG \o <<">">>, assets |-> <<IMG, FONT>>]
  ELSE IF url = PAGE_A
  THEN [html |-> <<"<link ">> \o CSS_S \o <<">">>, assets |-> <<CSS_S>>]
  ELSE [html |-> <<"<p>">>, assets |-> <<BAD, IMG, FONT, CSS_S>>]

\* the href attributes page.$$eval returns
Hrefs ==
  { <<"/", "salient", "/", "a", "/">>,
    <<"/", "salient", "/", "a", "/", "/", "#", "top">>,
    <<"/", "salient", "/", "a", "/", "?", "w">>,
    <<"..", "/", "a">>,
    <<"#", "top">>,
    <<"/", "blog", "/">>,
    <<"https:", "//", "other.test", "/", "salient", "/", "a", "/">>,
    <<"https:", "//">> }

\* most anchors the model reads from one page
MaxAnchors == 2

\* what one download attempt meets: a success, a non-success status, or an
\* exception (network error, write error)
Outcomes == {"ok", "status", "error"}

\* ------------------------------------------------------------------------
\* State
\* ------------------------------------------------------------------------
VARIABLES
  pc,               \* position of the script
  toVisit,          \* the pending queue (line 104)
  visited,          \* the visited set (line 105)
  assetsDownloaded, \* the downloaded set (line 106)
  files,            \* the output directory: path -> content
  nurl,             \* the page being visited
  html,             \* its HTML text
  assets,           \* its asset list
  ai,               \* index of the asset loop
  urlToLocal,       \* the page's map of asset URL -> local path
  htmlFilePath,     \* the file the page is saved to
  cssUrls,          \* the stylesheets to scan
  ci,               \* index of the stylesheet loop
  cssText,          \* text of the stylesheet being scanned
  matches,          \* its url(...) matches
  mi,               \* index of the match loop
  ni,               \* number of anchors read so far
  fetchCount,       \* history: fetches issued per URL
  ensureCount,      \* history: times a URL was to be downloaded
  gotoCount,        \* history: navigations per page URL
  rendered,         \* history: the HTML as page.content() returned it
  failedAssets,     \* history: assets of this page whose download failed
  attempted,        \* history: assets of this page the loop has handled
  failedPages,      \* history: pages whose visit threw
  everyYielded,     \* history: every visit so far succeeded and queued a link
  pushedHere,       \* history: this page has queued a link
  admitted,         \* history: the URLs in the order they entered the queue
  pathIn,           \* the URLs urlToLocalPath is applied to
  pathOut           \* the paths it returned for them

vars ==
  <<pc, toVisit, visited, assetsDownloaded, files, nurl, html, assets, ai,
    urlToLocal, htmlFilePath, cssUrls, ci, cssText, matches, mi, ni,
    fetchCount, ensureCount, gotoCount, rendered, failedAssets, attempted,
    failedPages, everyYielded, pushedHere, admitted, pathIn, pathOut, config>>

\* the variables of the path mapper alone
pathVars == <<pathIn, pathOut>>

\* the variables of the crawl that outlive a page
crawlVars == <<toVisit, visited, assetsDownloaded, files>>

\* the locals of one loop iteration
locals ==
  <<nurl, html, assets, ai, urlToLocal, htmlFilePath, cssUrls, ci, cssText,
    matches, mi, ni, rendered, failedAssets, attempted, pushedHere>>

EmptyFiles == [p \in {} |-> <<>>]

Count(f, k) == IF k \in DOMAIN f THEN f[k] ELSE 0

Inc(f, k) == (k :> (Count(f, k) + 1)) @@ f

\* the locals of an iteration that has ended
ResetLocals ==
  /\ nurl' = Null
  /\ html' = <<>>
  /\ assets' = <<>>
  /\ ai' = 0
  /\ urlToLocal' = <<>>
  /\ htmlFilePath' = Null
  /\ cssUrls' = <<>>
  /\ ci' = 0
  /\ cssText' = <<>>
  /\ matches' = <<>>
  /\ mi' = 0
  /\ ni' = 0
  /\ rendered' = <<>>
  /\ failedAssets' = {}
  /\ attempted' = {}
  /\ pushedHere' = FALSE

\* s.css as an earlier run of the script left it in rendered-site: its two
\* url(...) references rewritten to relative local paths (lines 271, 281)
RewrittenStylesheet ==
  CssUrlLiteral(<<"..", "/", "fonts", "/", "x", ".", "woff">>) \o <<" ">>
    \o CssUrlLiteral(<<"t", ".", "css">>)

\* what rendered-site may hold when the script starts, since line 99 keeps
\* an existing output directory as it is: nothing, the image an earlier run
\* saved, or the stylesheet an earlier run saved and rewrote
OutputDirs ==
  { EmptyFiles,
    (<<"salient", "/", "img", "/", "a", ".", "png">> :> <<"old">>),
    (<<"salient", "/", "css", "/", "s", ".", "css">> :> RewrittenStylesheet) }

\* the state before the crawl loop under the configuration chosen
InitCrawl ==
  /\ pc = "loop"
  /\ toVisit = <<START_URL>>
  /\ visited = {}
  /\ assetsDownloaded = {}
  /\ files \in OutputDirs
  /\ nurl = Null
  /\ html = <<>>
  /\ assets = <<>>
  /\ ai = 0
  /\ urlToLocal = <<>>
  /\ htmlFilePath = Null
  /\ cssUrls = <<>>
  /\ ci = 0
  /\ cssText = <<>>
  /\ matches = <<>>
  /\ mi = 0
  /\ ni = 0
  /\ fetchCount = EmptyFiles
  /\ ensureCount = EmptyFiles
  /\ gotoCount = EmptyFiles
  /\ rendered = <<>>
  /\ failedAssets = {}
  /\ attempted = {}
  /\ failedPages = {}
  /\ everyYielded = TRUE
  /\ pushedHere = FALSE
  /\ admitted = <<START_URL>>
  /\ pathIn = <<>>
  /\ pathOut = <<>>

Init ==
  /\ config = DefaultConfig
  /\ InitCrawl

\* ------------------------------------------------------------------------
\* The crawl loop
\* ------------------------------------------------------------------------

\* the while condition with the cap compared by <= instead of <
LoopCondOffByOne == Len(toVisit) > 0 /\ Cardinality(visited) <= MAX_PAGES

\* the while condition (line 122)
LoopCond == Len(toVisit) > 0 /\ Cardinality(visited) < MAX_PAGES

\* a page failure that ends the crawl instead of the iteration
AfterPageFailureStops == "done"

\* where the script continues after the catch block of a page (lines 312-316)
AfterPageFailure == "loop"

\* a catch block that does not mark the page visited
CatchVisitedForgets(vis, n) == vis

\* the visited set after the catch block (line 314)
CatchVisited(vis, n) == vis \cup {n}

\* the catch block of a page visit (lines 312-315)
CatchPage ==
  /\ visited' = CatchVisited(visited, nurl)
  /\ pc' = AfterPageFailure
  /\ failedPages' = failedPages \cup {nurl}
  /\ everyYielded' = FALSE
  /\ ResetLocals

\* the queue after toVisit.shift() (line 123)
Shift(queue) == Tail(queue)

\* lines 123-126: shift a URL, normalize it, skip it when it cannot be
\* normalized or was visited
Pop ==
  /\ pc = "loop"
  /\ LoopCond
  /\ LET n == normalize(Head(toVisit)) IN
     /\ toVisit' = Shift(toVisit)
     /\ IF n = Null \/ n \in visited
        THEN /\ pc' = "loop"
             /\ UNCHANGED nurl
        ELSE /\ pc' = "goto"
             /\ nurl' = n
  /\ UNCHANGED <<visited, assetsDownloaded, files, html, assets, ai, urlToLocal,
                 htmlFilePath, cssUrls, ci, cssText, matches, mi, ni, fetchCount, ensureCount,
                 gotoCount, rendered, failedAssets, attempted, failedPages,
                 everyYielded, pushedHere>>
  /\ UNCHANGED <<pathVars, config, admitted>>

\* lines 129-200: the page renders; its HTML and asset list are read
Goto ==
  /\ pc = "goto"
  /\ html' = SitePage(nurl).html
  /\ rendered' = SitePage(nurl).html
  /\ assets' = SitePage(nurl).assets
  /\ gotoCount' = Inc(gotoCount, nurl)
  /\ urlToLocal' = <<>>
  /\ ai' = 1
  /\ pc' = "asset"
  /\ UNCHANGED <<crawlVars, nurl, htmlFilePath, cssUrls, ci, cssText, matches, mi,
                 ni, fetchCount, ensureCount, failedAssets, attempted, failedPages,
                 everyYielded, pushedHere>>
  /\ UNCHANGED <<pathVars, config, admitted>>

\* lines 129-193 throw (navigation timeout, render error): the catch block
GotoFails ==
  /\ pc = "goto"
  /\ gotoCount' = Inc(gotoCount, nurl)
  /\ CatchPage
  /\ UNCHANGED <<toVisit, assetsDownloaded, files, fetchCount, ensureCount>>
  /\ UNCHANGED <<pathVars, config, admitted>>

\* the while loop ends (lines 318-321)
Finish ==
  /\ pc = "loop"
  /\ ~LoopCond
  /\ pc' = "done"
  /\ UNCHANGED <<crawlVars, locals, fetchCount, ensureCount, gotoCount, failedPages, everyYielded>>
  /\ UNCHANGED <<pathVars, config, admitted>>

\* downloadAndSave(url, assetLocalPath) on the file system fs, the fetch
\* and the write meeting `outcome`: whether it returns true, the file system
\* it leaves, and whether it issued a fetch
downloadAndSave(url, assetLocalPath, fs, outcome) ==
  IF url = Null \/ url = <<>> \/ assetLocalPath = Null \/ assetLocalPath = <<>>
  THEN [ok |-> FALSE, files |-> fs, fetched |-> FALSE]
  ELSE IF StartsWith(url, <<"data:">>)
  THEN [ok |-> FALSE, files |-> fs, fetched |-> FALSE]
  ELSE IF Exists(fs, assetLocalPath)
  THEN [ok |-> TRUE, files |-> fs, fetched |-> FALSE]
  ELSE IF outcome = "ok"
  THEN [ok |-> TRUE, files |-> (assetLocalPath :> SiteBody(url)) @@ fs, fetched |-> TRUE]
  ELSE [ok |-> FALSE, files |-> fs, fetched |-> TRUE]

\* an asset loop that stays on an asset whose download failed
NextAssetRetries(i, ok) == IF ok THEN i + 1 ELSE i

\* the index of the asset loop after one asset was handled (line 202)
NextAsset(i, ok) == i + 1

\* lines 202-225: one iteration of the asset loop
AssetStep ==
  /\ pc = "asset"
  /\ ai <= Len(assets)
  /\ LET assetUrl == assets[ai]
         localPath == IF ParseURL(assetUrl) = Null THEN Null
                      ELSE urlToLocalPath(assetUrl)
         already == assetUrl \in assetsDownloaded
     IN  IF localPath = Null
         THEN /\ ai' = NextAsset(ai, TRUE)
              /\ UNCHANGED <<assetsDownloaded, files, urlToLocal, fetchCount, ensureCount,
                             failedAssets, attempted>>
         ELSE \E outcome \in Outcomes :
                LET r == IF already
                         THEN [ok |-> TRUE, files |-> files, fetched |-> FALSE]
                         ELSE downloadAndSave(assetUrl, localPath, files, outcome)
                IN  /\ files' = r.files
                    /\ fetchCount' = IF r.fetched THEN Inc(fetchCount, assetUrl)
                                     ELSE fetchCount
                    /\ ensureCount' = Inc(ensureCount, assetUrl)
                    /\ assetsDownloaded' = IF r.ok THEN assetsDownloaded \cup {assetUrl}
                                           ELSE assetsDownloaded
                    /\ urlToLocal' = IF r.ok THEN Put(urlToLocal, assetUrl, localPath)
                                     ELSE urlToLocal
                    /\ failedAssets' = IF r.ok THEN failedAssets
                                       ELSE failedAssets \cup {assetUrl}
                    /\ attempted' = attempted \cup {assetUrl}
                    /\ ai' = NextAsset(ai, r.ok)
  /\ UNCHANGED <<pc, toVisit, visited, nurl, html, assets, htmlFilePath, cssUrls, ci,
                 cssText, matches, mi, ni, gotoCount, rendered, failedPages,
                 everyYielded, pushedHere>>
  /\ UNCHANGED <<pathVars, config, admitted>>

\* lines 229-256: the HTML is rewritten and written to its file; the
\* stylesheets to scan are selected
SaveHtml ==
  /\ pc = "asset"
  /\ ai > Len(assets)
  /\ htmlFilePathOf(nurl) # Null
  /\ LET path == htmlFilePathOf(nurl)
         text == RewriteHtml(html, urlToLocal, path)
     IN  /\ htmlFilePath' = path
         /\ html' = text
         /\ files' = (path :> text) @@ files
  /\ cssUrls' = CssUrlsOf(urlToLocal)
  /\ ci' = 1
  /\ pc' = "css"
  /\ UNCHANGED <<toVisit, visited, assetsDownloaded, nurl, assets, ai, urlToLocal,
                 cssText, matches, mi, ni, fetchCount, ensureCount, gotoCount, rendered,
                 failedAssets, attempted, failedPages, everyYielded, pushedHere>>
  /\ UNCHANGED <<pathVars, config, admitted>>

\* lines 229-252 throw (the path cannot be decoded, the write fails): the
\* catch block
SaveHtmlFails ==
  /\ pc = "asset"
  /\ ai > Len(assets)
  /\ CatchPage
  /\ UNCHANGED <<toVisit, assetsDownloaded, files, fetchCount, ensureCount, gotoCount>>
  /\ UNCHANGED <<pathVars, config, admitted>>

\* lines 257-262: a stylesheet is read and its url(...) references found; a
\* read that throws skips the stylesheet (line 290)
CssOpen ==
  /\ pc = "css"
  /\ ci <= Len(cssUrls)
  /\ LET cssLocal == Lookup(urlToLocal, cssUrls[ci]) IN
     IF cssLocal \in DOMAIN files
     THEN /\ cssText' = files[cssLocal]
          /\ matches' = CssMatches(files[cssLocal])
          /\ mi' = 1
          /\ pc' = "cssref"
          /\ UNCHANGED ci
     ELSE /\ ci' = ci + 1
          /\ UNCHANGED <<cssText, matches, mi, pc>>
  /\ UNCHANGED <<crawlVars, nurl, html, assets, ai, urlToLocal, htmlFilePath, cssUrls,
                 ni, fetchCount, ensureCount, gotoCount, rendered, failedAssets, attempted,
                 failedPages, everyYielded, pushedHere>>
  /\ UNCHANGED <<pathVars, config, admitted>>

\* lines 263-288: one url(...) match of the stylesheet being scanned
CssRef ==
  /\ pc = "cssref"
  /\ mi <= Len(matches)
  /\ LET m == matches[mi]
         cssUrl == cssUrls[ci]
         cssLocal == Lookup(urlToLocal, cssUrl)
         abs == IF m.ref = <<>> THEN Null ELSE Resolve(m.ref, cssUrl)
     IN  IF abs = Null
         THEN UNCHANGED <<assetsDownloaded, files, urlToLocal, cssText, fetchCount, ensureCount>>
         ELSE IF abs \in assetsDownloaded
         THEN LET localFull == Lookup(urlToLocal, abs) IN
              /\ cssText' = IF localFull = Null THEN cssText
                            ELSE ReplaceAll(cssText, m.lit,
                                            CssUrlLiteral(RelForCss(cssLocal, localFull)))
              /\ ensureCount' = Inc(ensureCount, abs)
              /\ UNCHANGED <<assetsDownloaded, files, urlToLocal, fetchCount>>
         ELSE LET localFull == urlToLocalPath(abs) IN
              IF localFull = Null
              THEN UNCHANGED <<assetsDownloaded, files, urlToLocal, cssText, fetchCount, ensureCount>>
              ELSE \E outcome \in Outcomes :
                     LET r == downloadAndSave(abs, localFull, files, outcome) IN
                     /\ files' = r.files
                     /\ fetchCount' = IF r.fetched THEN Inc(fetchCount, abs)
                                      ELSE fetchCount
                     /\ ensureCount' = Inc(ensureCount, abs)
                     /\ assetsDownloaded' = IF r.ok THEN assetsDownloaded \cup {abs}
                                            ELSE assetsDownloaded
                     /\ urlToLocal' = IF r.ok THEN Put(urlToLocal, abs, localFull)
                                      ELSE urlToLocal
                     /\ cssText' = IF r.ok
                                   THEN ReplaceAll(cssText, m.lit,
                                          CssUrlLiteral(RelForCss(cssLocal, localFull)))
                                   ELSE cssText
  /\ mi' = mi + 1
  /\ UNCHANGED <<pc, toVisit, visited, nurl, html, assets, ai, htmlFilePath, cssUrls,
                 ci, matches, ni, gotoCount, rendered, failedAssets, attempted,
                 failedPages, everyYielded, pushedHere>>
  /\ UNCHANGED <<pathVars, config, admitted>>

\* line 289: the stylesheet is written back; a write that throws is ignored
\* (line 290)
CssWrite ==
  /\ pc = "cssref"
  /\ mi > Len(matches)
  /\ \E written \in BOOLEAN :
       files' = IF written
                THEN (Lookup(urlToLocal, cssUrls[ci]) :> cssText) @@ files
                ELSE files
  /\ ci' = ci + 1
  /\ cssText' = <<>>
  /\ matches' = <<>>
  /\ mi' = 0
  /\ pc' = "css"
  /\ UNCHANGED <<toVisit, visited, assetsDownloaded, nurl, html, assets, ai,
                 urlToLocal, htmlFilePath, cssUrls, ni, fetchCount, ensureCount, gotoCount,
                 rendered, failedAssets, attempted, failedPages, everyYielded,
                 pushedHere>>
  /\ UNCHANGED <<pathVars, config, admitted>>

\* lines 295-298: the page is marked visited and its anchors are read
MarkVisited ==
  /\ pc = "css"
  /\ ci > Len(cssUrls)
  /\ visited' = visited \cup {nurl}
  /\ ni' = 0
  /\ pc' = "anchors"
  /\ UNCHANGED <<toVisit, assetsDownloaded, files, nurl, html, assets, ai, urlToLocal,
                 htmlFilePath, cssUrls, ci, cssText, matches, mi, fetchCount, ensureCount,
                 gotoCount, rendered, failedAssets, attempted, failedPages,
                 everyYielded, pushedHere>>
  /\ UNCHANGED <<pathVars, config, admitted>>

\* line 298 throws after line 295 has run: the catch block
AnchorsFail ==
  /\ pc = "css"
  /\ ci > Len(cssUrls)
  /\ CatchPage
  /\ UNCHANGED <<toVisit, assetsDownloaded, files, fetchCount, ensureCount, gotoCount>>
  /\ UNCHANGED <<pathVars, config, admitted>>

\* lines 303-306: the resolved href is on the start host and under the prefix
InScope(abs) ==
  /\ Hostname(abs) = START_HOSTNAME
  /\ StartsWith(Pathname(abs), PATH_PREFIX)

\* an admission check that does not look at the pending queue
IsNewIgnoresQueue(norm, vis, queue) ==
  /\ norm # Null
  /\ norm \notin vis

\* an admission check that does not look at the visited set
IsNewIgnoresVisited(norm, vis, queue) ==
  /\ norm # Null
  /\ ~InSeq(norm, queue)

\* line 308: the normalized URL is new to the visited set and to the queue
IsNew(norm, vis, queue) ==
  /\ norm # Null
  /\ norm \notin vis
  /\ ~InSeq(norm, queue)

\* a push that puts the URL at the front of the queue
PushFront(queue, u) == <<u>> \o queue

\* the queue after toVisit.push(norm) (line 308)
Push(queue, u) == Append(queue, u)

\* lines 300-310: the queue after the anchor href a of page base was handled
Admit(queue, vis, a, base) ==
  LET abs == Resolve(a, base) IN
  IF abs = Null THEN queue
  ELSE IF ~InScope(abs) THEN queue
  ELSE LET norm == normalize(abs) IN
       IF IsNew(norm, vis, queue) THEN Push(queue, norm) ELSE queue

\* lines 299-311: one anchor of the page
Enqueue ==
  /\ pc = "anchors"
  /\ ni < MaxAnchors
  /\ \E a \in Hrefs :
       /\ toVisit' = Admit(toVisit, visited, a, nurl)
       /\ pushedHere' = (pushedHere \/ toVisit' # toVisit)
       /\ admitted' = IF toVisit' = toVisit THEN admitted
                      ELSE Append(admitted, normalize(Resolve(a, nurl)))
  /\ ni' = ni + 1
  /\ UNCHANGED <<pc, visited, assetsDownloaded, files, nurl, html, assets, ai,
                 urlToLocal, htmlFilePath, cssUrls, ci, cssText, matches, mi,
                 fetchCount, ensureCount, gotoCount, rendered, failedAssets, attempted,
                 failedPages, everyYielded>>
  /\ UNCHANGED <<pathVars, config>>

\* line 311-316: the anchors are exhausted, the iteration ends
EndPage ==
  /\ pc = "anchors"
  /\ pc' = "loop"
  /\ everyYielded' = (everyYielded /\ pushedHere)
  /\ ResetLocals
  /\ UNCHANGED <<crawlVars, fetchCount, ensureCount, gotoCount, failedPages>>
  /\ UNCHANGED <<pathVars, config, admitted>>

Next ==
  \/ Pop
  \/ Goto
  \/ GotoFails
  \/ AssetStep
  \/ SaveHtml
  \/ SaveHtmlFails
  \/ CssOpen
  \/ CssRef
  \/ CssWrite
  \/ MarkVisited
  \/ AnchorsFail
  \/ Enqueue
  \/ EndPage
  \/ Finish

Spec == Init /\ [][Next]_vars

\* ------------------------------------------------------------------------
\* The crawl under other configurations
\* ------------------------------------------------------------------------

\* configurations: the script's own, a start URL outside the prefix, and a
\* prefix as long as the start URL's path
Configs ==
  { DefaultConfig,
    [ start |-> <<"https:", "//", "themenectar.com", "/", "blog", "/">>,
      prefix |-> <<"/", "salient", "/">> ],
    [ start |-> <<"https:", "//", "themenectar.com", "/", "salient", "/", "signal", "/">>,
      prefix |-> <<"/", "salient", "/", "signal", "/">> ] }

InitConfig ==
  /\ config \in Configs
  /\ InitCrawl

SpecConfig == InitConfig /\ [][Next]_vars

\* ------------------------------------------------------------------------
\* One page on its own: the asset loop and the HTML rewrite on any HTML
\* and any asset list over a pool of overlapping asset URLs
\* ------------------------------------------------------------------------

\* most assets, and most URL mentions in the HTML, of the page
MaxAssets == 2
MaxMentions == 2

IMG_V == IMG \o <<"?", "v">>
API == Site(<<"/", "salient", "/", "api">>)
API_V == API \o <<"?", "v">>
HTTP_IMG == <<"http:">> \o Drop(IMG, 1)

\* asset URLs page.evaluate may return: an image with and without a query
\* string, an extensionless resource with and without one, and the image
\* under the other scheme
PageAssetPool == {IMG, IMG_V, API, API_V, HTTP_IMG}

\* the URL texts the HTML may hold: the asset URLs and the protocol-relative
\* form of the image
PageMentions == PageAssetPool \cup {OriginLess(IMG)}

\* the sequences of length at most n over S
SeqsUpTo(S, n) == UNION {[1..k -> S] : k \in 0..n}

\* the sequences of SeqsUpTo(S, n) without a repeated element (the asset
\* list comes from a Set)
DistinctSeqsUpTo(S, n) ==
  {q \in SeqsUpTo(S, n) : \A i, j \in 1..Len(q) : i # j => q[i] # q[j]}

\* the state after lines 129-200 of the visit of the start page, for any
\* HTML, any asset list and any of the output directories
InitPage ==
  /\ config = DefaultConfig
  /\ pc = "asset"
  /\ toVisit = <<>>
  /\ visited = {}
  /\ assetsDownloaded = {}
  /\ files \in OutputDirs
  /\ nurl = START_URL
  /\ \E ms \in SeqsUpTo(PageMentions, MaxMentions) :
       /\ html = JoinWith(ms, <<" ">>)
       /\ rendered = JoinWith(ms, <<" ">>)
  /\ assets \in DistinctSeqsUpTo(PageAssetPool, MaxAssets)
  /\ ai = 1
  /\ urlToLocal = <<>>
  /\ htmlFilePath = Null
  /\ cssUrls = <<>>
  /\ ci = 0
  /\ cssText = <<>>
  /\ matches = <<>>
  /\ mi = 0
  /\ ni = 0
  /\ fetchCount = EmptyFiles
  /\ ensureCount = EmptyFiles
  /\ gotoCount = (START_URL :> 1)
  /\ failedAssets = {}
  /\ attempted = {}
  /\ failedPages = {}
  /\ everyYielded = TRUE
  /\ pushedHere = FALSE
  /\ admitted = <<>>
  /\ pathIn = <<>>
  /\ pathOut = <<>>

NextPage ==
  \/ AssetStep
  \/ SaveHtml
  \/ SaveHtmlFails

SpecPage == InitPage /\ [][NextPage]_vars

\* ------------------------------------------------------------------------
\* One page on its own whose stylesheets refer to each other
\* ------------------------------------------------------------------------

\* stylesheets page.evaluate may return: two that refer to each other and
\* one that refers to itself
CssAssetPool == {CSS_S, CSS_T, CSS_U}

\* the state after lines 129-200 of the visit of the start page, for any
\* list of these stylesheets and any of the output directories
InitCss ==
  /\ config = DefaultConfig
  /\ pc = "asset"
  /\ toVisit = <<>>
  /\ visited = {}
  /\ assetsDownloaded = {}
  /\ files \in OutputDirs
  /\ nurl = START_URL
  /\ html = <<"<p>">>
  /\ rendered = <<"<p>">>
  /\ assets \in DistinctSeqsUpTo(CssAssetPool, MaxAssets)
  /\ ai = 1
  /\ urlToLocal = <<>>
  /\ htmlFilePath = Null
  /\ cssUrls = <<>>
  /\ ci = 0
  /\ cssText = <<>>
  /\ matches = <<>>
  /\ mi = 0
  /\ ni = 0
  /\ fetchCount = EmptyFiles
  /\ ensureCount = EmptyFiles
  /\ gotoCount = (START_URL :> 1)
  /\ failedAssets = {}
  /\ attempted = {}
  /\ failedPages = {}
  /\ everyYielded = TRUE
  /\ pushedHere = FALSE
  /\ admitted = <<>>
  /\ pathIn = <<>>
  /\ pathOut = <<>>

NextCss ==
  \/ AssetStep
  \/ SaveHtml
  \/ SaveHtmlFails
  \/ CssOpen
  \/ CssRef
  \/ CssWrite

SpecCss == InitCss /\ [][NextCss]_vars

\* ------------------------------------------------------------------------
\* The path mapper on its own
\* ------------------------------------------------------------------------

PathHosts == {"themenectar.com", "cdn.test"}

\* paths: extensionless, with an extension, a directory, a name ending in
\* ".", a dot file, a malformed escape
PathPaths ==
  { <<"/", "salient", "/", "api">>,
    <<"/", "salient", "/", "a", ".", "png">>,
    <<"/", "salient", "/">>,
    <<"/", "salient", "/", "a", ".">>,
    <<"/", "salient", "/", ".", "css">>,
    <<"/", "salient", "/", "%">> }

\* queries: absent, empty, and three different ones
PathQueries == { <<>>, <<"?">>, <<"?", "v">>, <<"?", "w">>, <<"?", "v", "=", "w">> }

PathUrls ==
  { <<"https:", "//", h>> \o p \o q : h \in PathHosts, p \in PathPaths, q \in PathQueries }

InitPath ==
  /\ config = DefaultConfig
  /\ pc = "path"
  /\ pathIn \in PathUrls \X PathUrls
  /\ pathOut = <<>>
  /\ toVisit = <<>>
  /\ visited = {}
  /\ assetsDownloaded = {}
  /\ files = EmptyFiles
  /\ nurl = Null
  /\ html = <<>>
  /\ rendered = <<>>
  /\ assets = <<>>
  /\ ai = 0
  /\ urlToLocal = <<>>
  /\ htmlFilePath = Null
  /\ cssUrls = <<>>
  /\ ci = 0
  /\ cssText = <<>>
  /\ matches = <<>>
  /\ mi = 0
  /\ ni = 0
  /\ fetchCount = EmptyFiles
  /\ ensureCount = EmptyFiles
  /\ gotoCount = EmptyFiles
  /\ failedAssets = {}
  /\ attempted = {}
  /\ failedPages = {}
  /\ everyYielded = TRUE
  /\ pushedHere = FALSE
  /\ admitted = <<>>

\* urlToLocalPath is applied to the next URL
MapPath ==
  /\ pc = "path"
  /\ Len(pathOut) < Len(pathIn)
  /\ pathOut' = Append(pathOut, urlToLocalPath(pathIn[Len(pathOut) + 1]))
  /\ UNCHANGED <<pc, crawlVars, locals, fetchCount, ensureCount, gotoCount,
                 failedPages, everyYielded, pathIn, config, admitted>>

SpecPath == InitPath /\ [][MapPath]_vars

\* ------------------------------------------------------------------------
\* Properties
\* ------------------------------------------------------------------------

\* C1 (page cap): the visited set never holds more than MAX_PAGES URLs, and
\* a crawl in which every visit succeeded and queued a new link ends with
\* exactly MAX_PAGES visited pages, the URLs left in the queue unvisited.
C1_PageCap ==
  /\ Cardinality(visited) <= MAX_PAGES
  /\ (pc = "done" /\ everyYielded) =>
       /\ Cardinality(visited) = MAX_PAGES
       /\ \A i \in 1..Len(toVisit) : toVisit[i] \notin visited

\* the crawl has ended at the cap with links still pending
C1_Witness ==
  /\ pc = "done"
  /\ everyYielded
  /\ Cardinality(visited) = MAX_PAGES
  /\ Len(toVisit) > 0

\* the four admission conditions of the claim, on the resolved and
\* normalized href a of page base
AdmissionHolds(a, base, vis, queue) ==
  LET norm == normalize(Resolve(a, base)) IN
  /\ norm # Null
  /\ Hostname(norm) = START_HOSTNAME
  /\ StartsWith(Pathname(norm), PATH_PREFIX)
  /\ norm \notin vis
  /\ ~InSeq(norm, queue)

\* C2 (frontier admission): while a page's anchors are handled, an href is
\* appended to the queue only if, resolved and normalized, it is on the start
\* host, under the prefix, not visited and not pending; an href failing one
\* of the conditions leaves the queue unchanged; and every step that changes
\* the queue during the anchor loop appends one such URL.
C2_Admission ==
  /\ [](pc = "anchors" =>
         \A a \in Hrefs :
           Admit(toVisit, visited, a, nurl) =
             IF AdmissionHolds(a, nurl, visited, toVisit)
             THEN Append(toVisit, normalize(Resolve(a, nurl)))
             ELSE toVisit)
  /\ [][(pc = "anchors" /\ toVisit' # toVisit) =>
          \E a \in Hrefs :
            /\ AdmissionHolds(a, nurl, visited, toVisit)
            /\ toVisit' = Append(toVisit, normalize(Resolve(a, nurl)))]_vars

\* the anchor loop has queued a link and now meets hrefs rejected for each of
\* the four reasons
C2_Witness ==
  /\ pc = "anchors"
  /\ pushedHere
  /\ \E a \in Hrefs : Resolve(a, nurl) # Null /\ Hostname(Resolve(a, nurl)) # START_HOSTNAME
  /\ \E a \in Hrefs :
       /\ Resolve(a, nurl) # Null
       /\ Hostname(Resolve(a, nurl)) = START_HOSTNAME
       /\ ~StartsWith(Pathname(Resolve(a, nurl)), PATH_PREFIX)
  /\ \E a \in Hrefs : normalize(Resolve(a, nurl)) \in visited
  /\ \E a \in Hrefs : InSeq(normalize(Resolve(a, nurl)), toVisit)

\* C3 (no retry): when a loop iteration has ended, every page the loop
\* navigated to is in the visited set, whether its visit succeeded or threw,
\* and no page URL is navigated to more than once.
C3_NoRetry ==
  /\ pc \in {"loop", "done"} => DOMAIN gotoCount \subseteq visited
  /\ \A u \in DOMAIN gotoCount : gotoCount[u] <= 1

\* the crawl has ended after a failed visit and a successful one
C3_Witness ==
  /\ pc = "done"
  /\ failedPages # {}
  /\ visited \ failedPages # {}
  /\ failedPages \subseteq DOMAIN gotoCount

\* C4 (failure isolation): a step in which a page visit fails leaves the
\* script at the loop head with the queue as it was, so the next pending URL
\* is popped while the loop condition holds; the crawl ends only when the
\* queue is empty or the cap is reached; and once a page's asset loop is
\* over, every asset of the page that has a local path has been handled,
\* also those after a failed one.
C4_FailureIsolation ==
  /\ [](pc = "done" => ~LoopCond)
  /\ [](pc \in {"css", "cssref", "anchors"} =>
         \A i \in 1..Len(assets) :
           urlToLocalPath(assets[i]) # Null => assets[i] \in attempted)
  /\ [][failedPages' # failedPages => (pc' = "loop" /\ toVisit' = toVisit)]_vars

\* a page is being processed after an earlier page failed, and on this page
\* an asset was handled after another asset of the page failed
C4_Witness ==
  /\ pc = "css"
  /\ failedPages # {}
  /\ nurl \notin failedPages
  /\ \E i, j \in 1..Len(assets) :
       /\ i < j
       /\ assets[i] \in failedAssets
       /\ assets[j] \in attempted

\* C5 (download idempotence): a URL that was to be downloaded twice or more
\* has been fetched exactly once and is in the downloaded set.
C5_Idempotent ==
  \A u \in DOMAIN ensureCount :
    ensureCount[u] >= 2 => (Count(fetchCount, u) = 1 /\ u \in assetsDownloaded)

\* C6 (one attempt per asset): no asset URL is fetched more than once in a
\* run, failed fetches included.
C6_AtMostOneFetch == \A u \in DOMAIN fetchCount : fetchCount[u] <= 1

\* the URL texts of an HTML text whose mentions are separated by spaces
Pieces(text) == SplitKeep(text, " ")

\* the HTML as saved by line 251
SavedHtml == files[htmlFilePath]

\* C7 (lossy fallback): once the page is saved, an asset whose download
\* failed on the page is not in the page's map and each of its mentions in
\* the rendered HTML stands unchanged in the saved HTML.
C7_FailedLeftAlone ==
  pc = "css" =>
    \A u \in failedAssets :
      /\ ~HasKey(urlToLocal, u)
      /\ \A i \in 1..Len(Pieces(rendered)) :
           Pieces(rendered)[i] = u =>
             /\ i <= Len(Pieces(SavedHtml))
             /\ Pieces(SavedHtml)[i] = u

\* the file a relative reference names when it is followed from a
\* directory: the query is dropped, ".." goes up
ResolveRef(dirSegs, ref) ==
  LET noQuery == SubSeq(ref, 1, FirstOf(ref, {"?", "#"}, 1) - 1)
  IN  JoinWith(DotFold(dirSegs \o Segments(noQuery), 1, <<>>), <<"/">>)

\* C8 (rewrite round trip): once the page is saved, if every mention in the
\* rendered HTML is an asset URL of the page's map, the saved HTML holds no
\* mapped URL and each mention has become a relative path that leads from
\* the HTML file's directory to the local path mapped to that URL.
C8_RoundTrip ==
  (/\ pc = "css"
   /\ \A i \in 1..Len(Pieces(rendered)) : HasKey(urlToLocal, Pieces(rendered)[i]))
  =>
  /\ \A k \in 1..Len(urlToLocal) : ~Contains(SavedHtml, urlToLocal[k].url)
  /\ Len(Pieces(SavedHtml)) = Len(Pieces(rendered))
  /\ \A i \in 1..Len(Pieces(rendered)) :
       ResolveRef(DirSegments(htmlFilePath), Pieces(SavedHtml)[i])
         = Lookup(urlToLocal, Pieces(rendered)[i])

\* C9 (stylesheet rewriting): when all url(...) matches of a stylesheet have
\* been handled, for each match whose target, resolved against the
\* stylesheet's URL, is in the downloaded set, the text to be written holds
\* the reference to the target's local path relative to the stylesheet's
\* directory and, unless that is the same text, no longer the original
\* literal.
C9_StylesheetRewritten ==
  (pc = "cssref" /\ mi > Len(matches)) =>
    \A k \in 1..Len(matches) :
      LET abs == Resolve(matches[k].ref, cssUrls[ci]) IN
      (abs # Null /\ abs \in assetsDownloaded) =>
        LET lit == CssUrlLiteral(RelForCss(Lookup(urlToLocal, cssUrls[ci]),
                                           urlToLocalPath(abs)))
        IN  /\ Contains(cssText, lit)
            /\ lit # matches[k].lit => ~Contains(cssText, matches[k].lit)

\* two URLs of one host and one path that are not the same URL
SameButQuery(a, b) ==
  /\ a # b
  /\ Hostname(a) = Hostname(b)
  /\ Pathname(a) = Pathname(b)

\* the file name of the URL's path holds no "."
Extensionless(u) ==
  LET name == Basename(Pathname(u)) IN \A i \in 1..Len(name) : name[i] # "."

\* C10 as claimed (collision avoidance): two URLs of the same host and the
\* same extensionless path that differ only in the query string, one query
\* possibly empty or absent, get two different local paths.
C10_DistinctPaths ==
  (/\ Len(pathOut) = 2
   /\ SameButQuery(pathIn[1], pathIn[2])
   /\ Extensionless(pathIn[1]))
  =>
  /\ pathOut[1] # Null
  /\ pathOut[2] # Null
  /\ pathOut[1] # pathOut[2]

\* C10 as amended: two URLs of the same host and the same extensionless,
\* decodable path whose search strings (the query with its "?", empty when
\* the query is empty or absent) differ get two different local paths.
C10_DistinctPathsBySearch ==
  (/\ Len(pathOut) = 2
   /\ SameButQuery(pathIn[1], pathIn[2])
   /\ Extensionless(pathIn[1])
   /\ Decode(Pathname(pathIn[1])) # Null
   /\ Search(pathIn[1]) # Search(pathIn[2]))
  =>
  /\ pathOut[1] # Null
  /\ pathOut[2] # Null
  /\ pathOut[1] # pathOut[2]

\* both paths are computed for an extensionless URL without a query and the
\* same URL with one, and for the latter the path carries the hex suffix
C10_Witness ==
  /\ Len(pathOut) = 2
  /\ SameButQuery(pathIn[1], pathIn[2])
  /\ Extensionless(pathIn[1])
  /\ QueryPart(pathIn[1]) = <<>>
  /\ Search(pathIn[2]) # <<>>
  /\ pathOut[2] = pathOut[1] \o <<"_">> \o Hex(Search(pathIn[2]))

\* the work left in the visit of the current page: the stylesheet matches,
\* the stylesheets, the assets and the navigation still to be handled
PageRank ==
  CASE pc = "done" -> 0
    [] pc = "loop" -> 1
    [] pc = "anchors" -> 1
    [] pc = "css" -> 2 + (Len(cssUrls) - ci + 1) * 10
    [] pc = "cssref" -> 2 + (Len(cssUrls) - ci) * 10 + (Len(matches) - mi + 2)
    [] pc = "asset" -> 100 + (Len(assets) - ai + 2)
    [] pc = "goto" -> 200
    [] OTHER -> 0

\* the URLs still to be popped, the anchors still to be read counting twice
\* since each may add a URL
QueueRank ==
  Len(toVisit) + (IF pc = "anchors" THEN 2 * (MaxAnchors - ni) + 1 ELSE 0)

\* a measure of the work the crawl has left: the pages the cap still
\* allows, then the queue, then the rest of the current page
Rank ==
  (MAX_PAGES - Cardinality(visited)) * 100000 + QueueRank * 1000 + PageRank

\* the script has a next step to take: in each position one of the
\* branches of the code applies
CanStep ==
  \/ pc \in {"loop", "goto", "anchors"}
  \/ pc = "asset" /\ ai >= 1
  \/ pc = "css" /\ ci >= 1
  \/ pc = "cssref" /\ ci \in 1..Len(cssUrls) /\ mi >= 1

\* C11 (crawl termination): every step of the crawl lowers a measure that
\* never goes below zero and stays within its weights, and the script is
\* never stuck before its end, so a crawl whose steps each return or fail in
\* finite time ends; and whenever it has ended the pending queue is empty or
\* the visited set holds exactly MAX_PAGES URLs.
C11_Terminates ==
  /\ [](/\ Rank >= 0
        /\ PageRank < 1000
        /\ QueueRank < 100
        /\ (pc = "cssref" => Len(matches) - mi + 2 < 10)
        /\ (pc \in {"css", "cssref"} => 2 + (Len(cssUrls) + 1) * 10 < 100))
  /\ [][Rank' < Rank]_vars
  /\ [](pc # "done" => CanStep)
  /\ [](pc = "done" => (Len(toVisit) = 0 \/ Cardinality(visited) = MAX_PAGES))

\* the crawl has ended below the cap because the queue ran empty
C11_Witness ==
  /\ pc = "done"
  /\ Len(toVisit) = 0
  /\ visited # {}
  /\ Cardinality(visited) < MAX_PAGES

\* the URL is on the start host and its path begins with the path prefix
InCrawlScope(u) ==
  /\ Hostname(u) = START_HOSTNAME
  /\ StartsWith(Pathname(u), PATH_PREFIX)

\* C12 (crawl scope): under every configuration every pending URL and every
\* visited URL, the start URL included, is on the start host and has a path
\* that begins with the path prefix.
C12_Scope ==
  /\ \A i \in 1..Len(toVisit) : InCrawlScope(toVisit[i])
  /\ \A u \in visited : InCrawlScope(u)

\* the visit of page u has started
VisitStarted(u) == u \in DOMAIN gotoCount \/ (pc = "goto" /\ u = nurl)

\* the visit of page u has ended
VisitEnded(u) == u \in visited /\ u # nurl

\* C13 (FIFO traversal): of two URLs admitted to the queue one after the
\* other, the visit of the later one starts only when the visit of the
\* earlier one has ended; the queue holds the admitted URLs not yet popped
\* in admission order; and when a visit ends without a failure the page's
\* file holds its rewritten HTML, before the next URL is popped.
C13_Fifo ==
  /\ [](\A i, j \in 1..Len(admitted) :
          (i < j /\ VisitStarted(admitted[j])) => VisitEnded(admitted[i]))
  /\ [](\E k \in 0..Len(admitted) :
          toVisit = SubSeq(admitted, k + 1, Len(admitted)))
  /\ [][(pc = "anchors" /\ pc' = "loop") =>
          (htmlFilePath \in DOMAIN files /\ files[htmlFilePath] = html)]_vars
  /\ [][toVisit' # toVisit /\ pc' # "anchors" => pc = "loop"]_vars

\* a page admitted second is being visited after the page admitted first
\* was visited, a third URL still pending
C13_Witness ==
  /\ Len(admitted) >= 4
  /\ pc = "css"
  /\ nurl = admitted[3]
  /\ admitted[2] \in visited
  /\ Len(toVisit) > 0

\* C14 (recursive stylesheet resolution): when the stylesheets of a page
\* have been processed, every stylesheet downloaded for the page, those
\* reached only through a url(...) of another stylesheet included, is among
\* the stylesheets that were scanned, and in its file every url(...) whose
\* target was downloaded for the page has been rewritten.
C14_NestedScanned ==
  (pc = "css" /\ ci > Len(cssUrls)) =>
    \A k \in 1..Len(urlToLocal) :
      LET c == urlToLocal[k].url IN
      (IsCssUrl(c) /\ urlToLocal[k].path \in DOMAIN files) =>
        /\ InSeq(c, cssUrls)
        /\ \A n \in 1..Len(CssMatches(SiteBody(c))) :
             LET m == CssMatches(SiteBody(c))[n] IN
             HasKey(urlToLocal, Resolve(m.ref, c)) =>
               ~Contains(files[urlToLocal[k].path], m.lit)

\* C15 (stylesheet cycles): while a page whose stylesheets refer to each
\* other or to themselves is processed, every step lowers the work left in
\* the page, so the processing ends, and no stylesheet is fetched more than
\* once.
C15_CycleSafe ==
  /\ [][PageRank' < PageRank]_vars
  /\ [](\A u \in DOMAIN fetchCount : IsCssUrl(u) => fetchCount[u] <= 1)

\* the orders in which the entries of a map can be applied
Orders(map) ==
  {q \in [1..Len(map) -> {map[k] : k \in 1..Len(map)}] :
     \A i, j \in 1..Len(map) : i # j => q[i] # q[j]}

\* C16 (rewrite order independence): once a page is saved, rewriting its
\* rendered HTML with the entries of its map applied in any other order
\* gives the text that was saved.
C16_OrderIndependent ==
  (pc = "css" /\ htmlFilePath \in DOMAIN files) =>
    \A q \in Orders(urlToLocal) :
      RewriteHtml(rendered, q, htmlFilePath) = SavedHtml

\* a URL without its fragment and without the trailing slashes of its path
Stem(u) == <<Origin(u), StripSlashes(Pathname(u)), QueryPart(u)>>

\* the path of the URL ends with a slash
TrailingSlash(u) == EndsWith(Pathname(u), <<"/">>)

\* the URL has no fragment, and its path, unless it is the root, does not
\* end with more than one slash
IsNormalForm(u) ==
  /\ \A i \in 1..Len(u) : u[i] # "#"
  /\ LET path == Pathname(u) IN
     Len(path) >= 2 => ~(path[Len(path)] = "/" /\ path[Len(path) - 1] = "/")

\* normalize maps every href of the page to a fixed point of normalize, the
\* visited URLs and the URLs pushed from anchors are fixed points in normal
\* form, and no URL is navigated to twice
NormalizedEverywhere ==
  /\ \A u \in visited : normalize(u) = u /\ IsNormalForm(u)
  /\ \A i \in 2..Len(admitted) :
       normalize(admitted[i]) = admitted[i] /\ IsNormalForm(admitted[i])
  /\ pc = "anchors" =>
       \A a \in Hrefs :
         LET n == normalize(Resolve(a, nurl)) IN
         n # Null => (normalize(n) = n /\ IsNormalForm(n))
  /\ \A u \in DOMAIN gotoCount : gotoCount[u] <= 1

\* C17 as claimed (normalized page URLs): normalize is idempotent, visited
\* and pushed URLs are fixed points of it, and no two URLs that differ only
\* in the fragment or in the number of trailing slashes are both navigated
\* to.
C17_OneVisit ==
  /\ NormalizedEverywhere
  /\ \A u, v \in DOMAIN gotoCount : (u # v) => Stem(u) # Stem(v)

\* C17 as amended: the same, for two URLs that differ only in the fragment
\* or in the number of trailing slashes when each has at least one.
C17_OneVisitSlashed ==
  /\ NormalizedEverywhere
  /\ \A u, v \in DOMAIN gotoCount :
       (u # v /\ TrailingSlash(u) /\ TrailingSlash(v)) => Stem(u) # Stem(v)

\* page a/ was visited, and on a later page the href to it with a fragment
\* and a doubled slash is not admitted
C17_Witness ==
  /\ pc = "anchors"
  /\ PAGE_A \in visited
  /\ nurl # PAGE_A
  /\ gotoCount[PAGE_A] = 1
  /\ normalize(Resolve(<<"/", "salient", "/", "a", "/", "/", "#", "top">>, nurl)) = PAGE_A
  /\ Admit(toVisit, visited, <<"/", "salient", "/", "a", "/", "/", "#", "top">>, nurl) = toVisit

\* no URL occurs twice in the queue
NoDuplicates(queue) ==
  \A i, j \in 1..Len(queue) : i # j => queue[i] # queue[j]

\* C18 (frontier invariant): at the top of every loop iteration the queue
\* holds no URL twice and no URL whose normalized form is visited; so every
\* pop starts the visit of the popped URL's normalized form, the skip of
\* line 125 never applies, and each URL popped is navigated to exactly once.
C18_Frontier ==
  /\ [](pc = "loop" =>
         /\ NoDuplicates(toVisit)
         /\ \A i \in 1..Len(toVisit) :
              /\ normalize(toVisit[i]) # Null
              /\ normalize(toVisit[i]) \notin visited)
  /\ [][(pc = "loop" /\ toVisit' # toVisit) =>
          (pc' = "goto" /\ nurl' = normalize(Head(toVisit)))]_vars
  /\ [](\A u \in DOMAIN gotoCount : gotoCount[u] = 1)

\* the top of the loop with pages visited and several URLs pending
C18_Witness ==
  /\ pc = "loop"
  /\ Cardinality(visited) >= 2
  /\ Len(toVisit) >= 2

\* the pages visited without a failure
SavedPages == visited \ failedPages

\* C19 (saved pages are not overwritten): two different page URLs that were
\* both visited without a failure are saved to two different files, and
\* when the run has ended each of them has its file.
C19_DistinctFiles ==
  /\ \A u, v \in SavedPages :
       u # v => htmlFilePathOf(u) # htmlFilePathOf(v)
  /\ pc = "done" =>
       \A u \in SavedPages : htmlFilePathOf(u) \in DOMAIN files

====
